---- MODULE Spec2Model ----
(***************************************************************************)
(* Model of the iShares index-weights repository.                          *)
(*                                                                         *)
(*   src/main.py          the fetcher: date-range loop, worker pool,       *)
(*                        process_date / get_constituents / save_to_file   *)
(*   src/data_cleaner.py  the cleaner: process_holding, process_json_file, *)
(*                        sorting, ranking and the two CSV outputs         *)
(*                                                                         *)
(* The specifications share the definitions below:                         *)
(*   Spec       main() of main.py run Runs times in sequence               *)
(*   SpecDates  the date-range loop of main() alone, over a wider window   *)
(*   SpecClean  main() of data_cleaner.py over a directory of snapshots    *)
(*   SpecHold   process_json_file over one snapshot with arbitrary entries *)
(***************************************************************************)
EXTENDS Integers, Sequences, FiniteSets, TLC

VARIABLES
    \* ---- main.py ----
    INDEX_NAME,        \* main.py:109, the configured index identifier
    start_date,        \* main.py:110, proleptic Gregorian ordinal
    end_date,          \* main.py:111
    upstream,          \* what the endpoint answers for each date key (environment)
    run,               \* which invocation of main() is executing
    pc,                \* position of the main thread inside main()
    current_date,      \* main.py:116
    dates_to_process,  \* main.py:117
    submitted,         \* number of futures created by the comprehension, main.py:128
    task,              \* per date key: its future (st, the bool it returns, the
                       \* exception it raised, whether as_completed has yielded it)
    successful_dates,  \* main.py:124
    dirExists,         \* constituents/<INDEX_NAME>/ exists
    files,             \* per date key: "none", "full" or "partial" output file
    requests,          \* history: requests[r][k] = requests.get calls in run r
    filesAtStart,      \* history: files when run r started
    finalCount,        \* history: successful_dates when run r ended
    outcomes,          \* history: outcomes[r][k] = how the future of k ended in run r
    \* ---- data_cleaner.py ----
    cpc,               \* position inside data_cleaner.main()
    snapshots,         \* input directory: file stem -> parsed content
    json_files,        \* data_cleaner.py:92, stems still to process (sorted)
    all_holdings,      \* data_cleaner.py:91
    df,                \* data_cleaner.py:104-114, the ranked frame (sequence of rows)
    historical,        \* processed_data/<index>/historical.csv, or <<"absent">>
    daily,             \* processed_data/<index>/daily/*.csv : filename -> rows
    crashed            \* exception that left data_cleaner.main(), or "none"

fetchVars == <<INDEX_NAME, start_date, end_date, upstream, run, pc, current_date,
               dates_to_process, submitted, task, successful_dates, dirExists,
               files, requests, filesAtStart, finalCount, outcomes>>
cleanVars == <<cpc, snapshots, json_files, all_holdings, df, historical, daily, crashed>>
vars == <<fetchVars, cleanVars>>

----------------------------------------------------------------------------
(* Bounds of the model *)

MaxDays == 2        \* longest date range main.py is run over in Spec
MaxSpan == 4        \* longest date range generated in SpecDates
Runs == 2           \* consecutive invocations of main.py's main()
MaxRows == 3        \* holdings per snapshot file in SpecClean
MaxEntries == 3     \* entries of aaData in SpecHold

----------------------------------------------------------------------------
(* Calendar: datetime ordinals and strftime("%Y%m%d") *)

IsLeap(y) == (y % 4 = 0) /\ ((y % 100 # 0) \/ (y % 400 = 0))

DaysInMonth(y, m) ==
    IF m = 2 THEN (IF IsLeap(y) THEN 29 ELSE 28)
    ELSE IF m \in {4, 6, 9, 11} THEN 30 ELSE 31

RECURSIVE DaysBeforeMonth(_, _)
DaysBeforeMonth(y, m) ==
    IF m = 1 THEN 0 ELSE DaysBeforeMonth(y, m - 1) + DaysInMonth(y, m - 1)

DaysBeforeYear(y) ==
    LET p == y - 1 IN p * 365 + (p \div 4) - (p \div 100) + (p \div 400)

DaysInYear(y) == IF IsLeap(y) THEN 366 ELSE 365

\* datetime(y, m, d) as an ordinal (day 1 is 0001-01-01)
Ymd2Ord(y, m, d) == DaysBeforeYear(y) + DaysBeforeMonth(y, m) + d

\* the calendar date of an ordinal
Ord2Ymd(n) ==
    LET y == CHOOSE yy \in (n \div 366)..(n \div 365 + 1) :
                 DaysBeforeYear(yy) < n /\ n <= DaysBeforeYear(yy) + DaysInYear(yy)
        r == n - DaysBeforeYear(y)
        m == CHOOSE mm \in 1..12 :
                 DaysBeforeMonth(y, mm) < r /\ r <= DaysBeforeMonth(y, mm) + DaysInMonth(y, mm)
    IN [y |-> y, m |-> m, d |-> r - DaysBeforeMonth(y, m)]

\* zero-padded decimal digits of v, w digits wide
RECURSIVE Digits(_, _)
Digits(v, w) == IF w = 0 THEN <<>> ELSE Append(Digits(v \div 10, w - 1), v % 10)

\* main.py:13-15
format_date(date) ==
    LET c == Ord2Ymd(date) IN Digits(c.y, 4) \o Digits(c.m, 2) \o Digits(c.d, 2)

\* order of str in Python (here: equal-length digit strings)
RECURSIVE StrLess(_, _)
StrLess(a, b) ==
    IF a = <<>> THEN b # <<>>
    ELSE IF b = <<>> THEN FALSE
    ELSE IF Head(a) # Head(b) THEN Head(a) < Head(b)
    ELSE StrLess(Tail(a), Tail(b))

----------------------------------------------------------------------------
(* main.py: configuration and environment *)

\* main.py:17-24
index_to_url == {"spx500", "nikkei400", "msci_us_sri"}

\* main.py:113
max_workers == 5

\* identifiers main() may be configured with (main.py:109), one of them unknown
IndexChoices == {"msci_us_sri", "ftse100"}

\* what the endpoint can answer to one request
Answers == {"data", "empty", "transport_error", "decode_error"}

\* the dates of start..end as keys
KeysOf(s, e) == {format_date(o) : o \in s..e}

Keys == DOMAIN files

FreshTask == [st |-> "unsubmitted", success |-> FALSE, exc |-> "none", seen |-> FALSE]

\* values of the cleaner's variables while main.py runs
CleanIdle ==
    /\ cpc = "idle"
    /\ snapshots = <<>>
    /\ json_files = <<>>
    /\ all_holdings = <<>>
    /\ df = <<>>
    /\ historical = <<"absent">>
    /\ daily = <<>>
    /\ crashed = "none"

\* main.py:108-125 up to the loop, for a start and a set of possible ends
InitMain(indices, starts, back, span, answers) ==
    /\ INDEX_NAME \in indices
    /\ start_date \in starts
    /\ end_date \in (start_date - back)..(start_date + span - 1)
    /\ upstream \in [KeysOf(start_date, end_date) -> answers]
    /\ run = 1
    /\ pc = "gen"
    /\ current_date = start_date
    /\ dates_to_process = <<>>
    /\ submitted = 0
    /\ task = [k \in KeysOf(start_date, end_date) |-> FreshTask]
    /\ successful_dates = 0
    /\ dirExists = FALSE
    /\ files = [k \in KeysOf(start_date, end_date) |-> "none"]
    /\ requests = [r \in 1..Runs |-> [k \in KeysOf(start_date, end_date) |-> 0]]
    /\ filesAtStart = [r \in 1..Runs |-> [k \in KeysOf(start_date, end_date) |-> "none"]]
    /\ finalCount = [r \in 1..Runs |-> 0]
    /\ outcomes = [r \in 1..Runs |-> [k \in KeysOf(start_date, end_date) |-> "pending"]]
    /\ CleanIdle

\* main.py:110 is datetime(2025, 4, 1); the ranges of Spec start at a month end
Init == InitMain(IndexChoices, {Ymd2Ord(2025, 4, 30)}, 1, MaxDays, Answers)

----------------------------------------------------------------------------
(* main.py:115-121, the date-range loop *)

\* faulty variant of LoopCond: the end date is left out
LoopCondStrict(cur, end) == cur < end

\* main.py:119
LoopCond(cur, end) == cur <= end

\* main.py:119-121, one iteration
GenDate ==
    /\ pc = "gen"
    /\ LoopCond(current_date, end_date)
    /\ dates_to_process' = Append(dates_to_process, format_date(current_date))
    /\ current_date' = current_date + 1
    /\ UNCHANGED <<INDEX_NAME, start_date, end_date, upstream, run, pc, submitted, task,
                   successful_dates, dirExists, files, requests, filesAtStart,
                   finalCount, outcomes, cleanVars>>

\* main.py:119 false, then 124-127: the loop ends and the pool is created
GenDone ==
    /\ pc = "gen"
    /\ ~LoopCond(current_date, end_date)
    /\ pc' = "submit"
    /\ successful_dates' = 0
    /\ UNCHANGED <<INDEX_NAME, start_date, end_date, upstream, run, current_date,
                   dates_to_process, submitted, task, dirExists, files, requests,
                   filesAtStart, finalCount, outcomes, cleanVars>>

----------------------------------------------------------------------------
(* main.py:127-129, submission to the ThreadPoolExecutor *)

\* main.py:128, executor.submit for the next date of the comprehension
Submit ==
    /\ pc = "submit"
    /\ submitted < Len(dates_to_process)
    /\ submitted' = submitted + 1
    /\ task' = [task EXCEPT ![dates_to_process[submitted + 1]].st = "queued"]
    /\ UNCHANGED <<INDEX_NAME, start_date, end_date, upstream, run, pc, current_date,
                   dates_to_process, successful_dates, dirExists, files, requests,
                   filesAtStart, finalCount, outcomes, cleanVars>>

\* main.py:129-131, the comprehension is exhausted and as_completed starts
SubmitDone ==
    /\ pc = "submit"
    /\ submitted = Len(dates_to_process)
    /\ pc' = "collect"
    /\ UNCHANGED <<INDEX_NAME, start_date, end_date, upstream, run, current_date,
                   dates_to_process, submitted, task, successful_dates, dirExists, files,
                   requests, filesAtStart, finalCount, outcomes, cleanVars>>

----------------------------------------------------------------------------
(* main.py:86-105, process_date in a worker thread *)

Busy == {k \in Keys : task[k].st \in {"started", "saving", "sleeping"}}

\* position of k among the queued futures, in submission order
QueuePos(k) ==
    Cardinality({i \in 1..Len(dates_to_process) :
                    /\ task[dates_to_process[i]].st = "queued"
                    /\ \E j \in 1..Len(dates_to_process) :
                          dates_to_process[j] = k /\ i < j})

\* a worker of the pool (main.py:127) takes k from the work queue; with ranges
\* shorter than max_workers every queued future finds a free worker
WorkerFree(k) == QueuePos(k) < max_workers - Cardinality(Busy)

\* faulty variants of FileExists: no resumption check; a partial file is not seen
FileExistsNever(k) == FALSE

FileExistsFullOnly(k) == files[k] = "full"

\* main.py:93, output_file.exists()
FileExists(k) == files[k] # "none"

\* main.py:30, the guard of get_constituents
KnownIndex(name) == name \in index_to_url

\* faulty variant of get_constituents: the empty-result check of line 57 is missing
GetConstituentsKeepEmpty(name, answer) ==
    IF ~KnownIndex(name)
    THEN [raised |-> TRUE, requested |-> FALSE, data |-> FALSE]
    ELSE [raised |-> FALSE, requested |-> TRUE,
          data |-> answer \in {"data", "empty"}]

\* main.py:26-73: the assert, one requests.get, and the value returned
\* (data |-> FALSE is None)
get_constituents(name, answer) ==
    IF ~KnownIndex(name)
    THEN [raised |-> TRUE, requested |-> FALSE, data |-> FALSE]       \* line 30
    ELSE CASE answer = "transport_error" ->                          \* lines 63-65
                [raised |-> FALSE, requested |-> TRUE, data |-> FALSE]
           [] answer = "decode_error" ->                             \* lines 67-69
                [raised |-> FALSE, requested |-> TRUE, data |-> FALSE]
           [] answer = "empty" ->                                    \* lines 57-59
                [raised |-> FALSE, requested |-> TRUE, data |-> FALSE]
           [] answer = "data" ->                                     \* line 61
                [raised |-> FALSE, requested |-> TRUE, data |-> TRUE]

\* main.py:89-95: mkdir, exists(), and the early return
TaskStart(k) ==
    /\ task[k].st = "queued"
    /\ WorkerFree(k)
    /\ dirExists' = TRUE
    /\ task' = [task EXCEPT ![k].st = IF FileExists(k) THEN "returned" ELSE "started",
                            ![k].success = FileExists(k)]
    /\ UNCHANGED <<INDEX_NAME, start_date, end_date, upstream, run, pc, current_date,
                   dates_to_process, submitted, successful_dates, files, requests,
                   filesAtStart, finalCount, outcomes, cleanVars>>

\* main.py:98-100: get_constituents and the test of its result
TaskFetch(k) ==
    /\ task[k].st = "started"
    /\ LET got == get_constituents(INDEX_NAME, upstream[k]) IN
        /\ requests' = [requests EXCEPT ![run][k] = @ + (IF got.requested THEN 1 ELSE 0)]
        /\ task' = [task EXCEPT ![k].st = IF got.raised THEN "raised"
                                          ELSE IF got.data THEN "saving" ELSE "sleeping",
                                ![k].success = got.data,
                                ![k].exc = IF got.raised THEN "AssertionError" ELSE "none"]
    /\ UNCHANGED <<INDEX_NAME, start_date, end_date, upstream, run, pc, current_date,
                   dates_to_process, submitted, successful_dates, dirExists, files,
                   filesAtStart, finalCount, outcomes, cleanVars>>

\* main.py:75-84, save_to_file: the write succeeds, or open() raises and leaves
\* no file, or json.dump / close raises and leaves the file open() created
TaskSave(k) ==
    /\ task[k].st = "saving"
    /\ \E io \in {"ok", "open_fails", "write_fails"} :
        /\ files' = [files EXCEPT ![k] = CASE io = "ok" -> "full"
                                           [] io = "open_fails" -> @
                                           [] io = "write_fails" -> "partial"]
        /\ task' = [task EXCEPT ![k].st = IF io = "ok" THEN "sleeping" ELSE "raised",
                                ![k].exc = IF io = "ok" THEN "none" ELSE "OSError"]
    /\ UNCHANGED <<INDEX_NAME, start_date, end_date, upstream, run, pc, current_date,
                   dates_to_process, submitted, successful_dates, dirExists, requests,
                   filesAtStart, finalCount, outcomes, cleanVars>>

\* main.py:104-105: time.sleep(1) and return date_str, data is not None
TaskFinish(k) ==
    /\ task[k].st = "sleeping"
    /\ task' = [task EXCEPT ![k].st = "returned"]
    /\ UNCHANGED <<INDEX_NAME, start_date, end_date, upstream, run, pc, current_date,
                   dates_to_process, submitted, successful_dates, dirExists, files,
                   requests, filesAtStart, finalCount, outcomes, cleanVars>>

----------------------------------------------------------------------------
(* main.py:131-139, aggregation in the main thread *)

\* faulty variant of Count: every finished future is counted
CountAlways(count, t) == count + 1

\* main.py:134-136 inside the try of 133-139
Count(count, t) == IF t.st = "returned" /\ t.success THEN count + 1 ELSE count

\* how a finished future ended
Ended(t) == IF t.st = "raised" THEN t.exc
            ELSE IF t.success THEN "success" ELSE "failure"

\* main.py:131-139, one iteration of as_completed over a finished future
Collect(k) ==
    /\ pc = "collect"
    /\ task[k].st \in {"returned", "raised"}
    /\ ~task[k].seen
    /\ successful_dates' = Count(successful_dates, task[k])
    /\ task' = [task EXCEPT ![k].seen = TRUE]
    /\ outcomes' = [outcomes EXCEPT ![run][k] = Ended(task[k])]
    /\ UNCHANGED <<INDEX_NAME, start_date, end_date, upstream, run, pc, current_date,
                   dates_to_process, submitted, dirExists, files, requests,
                   filesAtStart, finalCount, cleanVars>>

\* main.py:131 exhausted, the with block of 127 exits and main() returns
MainReturn ==
    /\ pc = "collect"
    /\ \A i \in 1..Len(dates_to_process) : task[dates_to_process[i]].seen
    /\ pc' = "done"
    /\ finalCount' = [finalCount EXCEPT ![run] = successful_dates]
    /\ UNCHANGED <<INDEX_NAME, start_date, end_date, upstream, run, current_date,
                   dates_to_process, submitted, task, successful_dates, dirExists, files,
                   requests, filesAtStart, outcomes, cleanVars>>

\* main.py:141-142 again: the next invocation, over the same range and upstream
Rerun ==
    /\ pc = "done"
    /\ run < Runs
    /\ run' = run + 1
    /\ pc' = "gen"
    /\ current_date' = start_date
    /\ dates_to_process' = <<>>
    /\ submitted' = 0
    /\ task' = [k \in Keys |-> FreshTask]
    /\ successful_dates' = 0
    /\ filesAtStart' = [filesAtStart EXCEPT ![run + 1] = files]
    /\ UNCHANGED <<INDEX_NAME, start_date, end_date, upstream, dirExists, files,
                   requests, finalCount, outcomes, cleanVars>>

Next ==
    \/ GenDate
    \/ GenDone
    \/ Submit
    \/ SubmitDone
    \/ \E k \in Keys : TaskStart(k)
    \/ \E k \in Keys : TaskFetch(k)
    \/ \E k \in Keys : TaskSave(k)
    \/ \E k \in Keys : TaskFinish(k)
    \/ \E k \in Keys : Collect(k)
    \/ MainReturn
    \/ Rerun

Spec == Init /\ [][Next]_vars

\* the date-range loop alone, over ranges around month and year ends
DateStarts == {Ymd2Ord(2025, 4, 1), Ymd2Ord(2024, 2, 27), Ymd2Ord(2025, 2, 27),
               Ymd2Ord(2025, 12, 30), Ymd2Ord(2025, 6, 29), Ymd2Ord(2100, 2, 26)}

InitDates == InitMain({"msci_us_sri"}, DateStarts, 3, MaxSpan, {"data"})

NextDates == GenDate \/ GenDone

\* the loop runs in the main thread alone and no iteration blocks
SpecDates == InitDates /\ [][NextDates]_vars /\ WF_vars(NextDates)

----------------------------------------------------------------------------
(* data_cleaner.py: JSON values of a snapshot file *)

\* the character '-' (digits are the characters 0..9)
DashChar == 45

Str(x)  == [t |-> "str",  s |-> x,  n |-> 0, hasraw |-> FALSE]
Num(v)  == [t |-> "num",  s |-> "", n |-> v, hasraw |-> FALSE]
Null    == [t |-> "null", s |-> "", n |-> 0, hasraw |-> FALSE]
\* an object {"display": ..., "raw": v}, and one without the 'raw' member
RawDict(v) == [t |-> "dict", s |-> "", n |-> v, hasraw |-> TRUE]
NoRawDict  == [t |-> "dict", s |-> "", n |-> 0, hasraw |-> FALSE]

\* one element of aaData: a JSON array (or string) of items, or a scalar / object
ListEntry(items) == [t |-> "list", items |-> items]
ScalarEntry(kind) == [t |-> kind, items |-> <<>>]

\* a parsed snapshot: json.load fails, or yields an object with or without the
\* aaData member, or yields something that is no object
BadJson      == [parse |-> "error", top |-> "none", hasfield |-> FALSE, aaData |-> <<>>]
NotAnObject  == [parse |-> "ok", top |-> "list", hasfield |-> FALSE, aaData |-> <<>>]
NoField      == [parse |-> "ok", top |-> "dict", hasfield |-> FALSE, aaData |-> <<>>]
Payload(rows) == [parse |-> "ok", top |-> "dict", hasfield |-> TRUE, aaData |-> rows]

----------------------------------------------------------------------------
(* data_cleaner.py:11-27, process_holding *)

NoRecord == [date |-> <<>>, ticker |-> Null, name |-> Null, sector |-> Null,
             weight |-> Null]
Dropped     == [kind |-> "None", exc |-> "none", rec |-> NoRecord]
Raises(e)   == [kind |-> "raise", exc |-> e, rec |-> NoRecord]
Cleaned(r)  == [kind |-> "record", exc |-> "none", rec |-> r]

\* holding[i] of Python (i is 0-based): the item, or the exception raised
Subscript(holding, i) ==
    IF holding.t \in {"list", "str"}
    THEN IF i + 1 <= Len(holding.items)
         THEN [exc |-> "none", v |-> holding.items[i + 1]]
         ELSE [exc |-> "IndexError", v |-> Null]
    ELSE IF holding.t = "dict" THEN [exc |-> "KeyError", v |-> Null]
    ELSE [exc |-> "TypeError", v |-> Null]

\* data_cleaner.py:25, the exceptions process_holding handles
Handled(e) == e \in {"IndexError", "AttributeError"}

\* faulty variant of WeightOf: the isinstance test is missing
WeightOfTrusting(container) == Num(container.n)

\* data_cleaner.py:23
WeightOf(container) ==
    IF container.t = "dict"
    THEN (IF container.hasraw THEN Num(container.n) ELSE Num(0))
    ELSE Num(0)

\* data_cleaner.py:11-27
process_holding(holding, date) ==
    LET cls == Subscript(holding, 3)
        wc  == Subscript(holding, 5)
    IN IF cls.exc # "none"                                       \* line 15 raises
       THEN (IF Handled(cls.exc) THEN Dropped ELSE Raises(cls.exc))
       ELSE IF cls.v # Str("Equity") THEN Dropped                \* lines 15-16
       ELSE IF wc.exc # "none"                                   \* line 23 raises
       THEN (IF Handled(wc.exc) THEN Dropped ELSE Raises(wc.exc))
       ELSE Cleaned([date |-> date,                              \* lines 18-24
                     ticker |-> Subscript(holding, 0).v,
                     name |-> Subscript(holding, 1).v,
                     sector |-> Subscript(holding, 2).v,
                     weight |-> WeightOf(wc.v)])

----------------------------------------------------------------------------
(* data_cleaner.py:29-51, process_json_file *)

\* data_cleaner.py:38-39, the stem YYYYMMDD as YYYY-MM-DD
FormatStem(date) ==
    SubSeq(date, 1, 4) \o <<DashChar>> \o SubSeq(date, 5, 6) \o <<DashChar>>
        \o SubSeq(date, 7, Len(date))

\* data_cleaner.py:41-45, the loop over aaData from entry i on; ok is FALSE when
\* an exception left process_holding
RECURSIVE HoldingsFrom(_, _, _, _)
HoldingsFrom(rows, i, date, acc) ==
    IF i > Len(rows) THEN [ok |-> TRUE, holdings |-> acc]
    ELSE LET processed == process_holding(rows[i], date) IN
         IF processed.kind = "raise" THEN [ok |-> FALSE, holdings |-> acc]
         ELSE IF processed.kind = "record"
         THEN HoldingsFrom(rows, i + 1, date, Append(acc, processed.rec))
         ELSE HoldingsFrom(rows, i + 1, date, acc)

\* data_cleaner.py:29-51
process_json_file(stem, content) ==
    IF content.parse # "ok" THEN <<>>                 \* line 33 raises, 49-51
    ELSE IF content.top # "dict" THEN <<>>            \* line 35 raises, 49-51
    ELSE IF ~content.hasfield \/ content.aaData = <<>> THEN <<>>  \* lines 35-36
    ELSE LET got == HoldingsFrom(content.aaData, 1, FormatStem(stem), <<>>) IN
         IF got.ok THEN got.holdings                  \* line 47
         ELSE <<>>                                    \* lines 49-51

----------------------------------------------------------------------------
(* data_cleaner.py:103-114, the frame *)

\* order of sort_values(['date', 'weight'], ascending=[True, False])
RowBefore(a, b) ==
    \/ StrLess(a.date, b.date)
    \/ a.date = b.date /\ a.weight.n > b.weight.n

\* insertion that keeps equal rows in their order of arrival (the sort is stable)
RECURSIVE InsertRow(_, _)
InsertRow(sorted, row) ==
    IF sorted = <<>> THEN <<row>>
    ELSE IF RowBefore(row, Head(sorted)) THEN <<row>> \o sorted
    ELSE <<Head(sorted)>> \o InsertRow(Tail(sorted), row)

RECURSIVE SortFrame(_)
\* data_cleaner.py:107
SortFrame(rows) ==
    IF rows = <<>> THEN <<>>
    ELSE InsertRow(SortFrame(SubSeq(rows, 1, Len(rows) - 1)), rows[Len(rows)])

\* faulty variant of RankMin: rank by position within the date
RankDense(rows, i) ==
    1 + Cardinality({j \in 1..(i - 1) : rows[j].date = rows[i].date})

\* data_cleaner.py:110, groupby('date')['weight'].rank(method='min', ascending=False)
RankMin(rows, i) ==
    1 + Cardinality({j \in 1..Len(rows) :
                        rows[j].date = rows[i].date /\ rows[j].weight.n > rows[i].weight.n})

\* data_cleaner.py:107-114
RankedFrame(rows) ==
    LET sorted == SortFrame(rows) IN
    [i \in 1..Len(sorted) |->
        [date |-> sorted[i].date, rank |-> RankMin(sorted, i),
         ticker |-> sorted[i].ticker, name |-> sorted[i].name,
         sector |-> sorted[i].sector, weight |-> sorted[i].weight]]

----------------------------------------------------------------------------
(* data_cleaner.py:59-81, save_daily_files *)

RECURSIVE SelectRows(_, _)
\* data_cleaner.py:65, the rows of one date in frame order
SelectRows(rows, date) ==
    IF rows = <<>> THEN <<>>
    ELSE IF Head(rows).date = date THEN <<Head(rows)>> \o SelectRows(Tail(rows), date)
    ELSE SelectRows(Tail(rows), date)

RECURSIVE Unique(_, _)
\* data_cleaner.py:64, df['date'].unique(): dates in order of first appearance
Unique(rows, seen) ==
    IF rows = <<>> THEN seen
    ELSE IF \E i \in 1..Len(seen) : seen[i] = Head(rows).date
    THEN Unique(Tail(rows), seen)
    ELSE Unique(Tail(rows), Append(seen, Head(rows).date))

\* data_cleaner.py:69, the orders sort_values('weight', ascending=False) may
\* produce: its default kind is quicksort, which does not fix the order of ties
WeightOrders(rows) ==
    {p \in [1..Len(rows) -> 1..Len(rows)] :
        /\ \A i, j \in 1..Len(rows) : i # j => p[i] # p[j]
        /\ \A i \in 1..(Len(rows) - 1) : rows[p[i]].weight.n >= rows[p[i + 1]].weight.n}

\* data_cleaner.py:67-75, the rows of one daily file in the order p
DailyRows(rows, p) ==
    [i \in 1..Len(rows) |->
        [rank |-> i, ticker |-> rows[p[i]].ticker, name |-> rows[p[i]].name,
         sector |-> rows[p[i]].sector, weight |-> rows[p[i]].weight]]

RECURSIVE RemoveDashes(_)
\* data_cleaner.py:78, date.replace('-', '')
RemoveDashes(date) ==
    IF date = <<>> THEN <<>>
    ELSE IF Head(date) = DashChar THEN RemoveDashes(Tail(date))
    ELSE <<Head(date)>> \o RemoveDashes(Tail(date))

----------------------------------------------------------------------------
(* data_cleaner.py:83-124, main *)

RECURSIVE SortedStems(_)
\* data_cleaner.py:92, sorted(input_dir.glob("*.json"))
SortedStems(stems) ==
    IF stems = {} THEN <<>>
    ELSE LET least == CHOOSE a \in stems : \A b \in stems \ {a} : StrLess(a, b)
         IN <<least>> \o SortedStems(stems \ {least})

\* values of main.py's variables while data_cleaner.py runs
FetchIdle ==
    /\ INDEX_NAME = "msci_us_sri"
    /\ start_date = 0 /\ end_date = 0
    /\ upstream = <<>>
    /\ run = 1
    /\ pc = "idle"
    /\ current_date = 0
    /\ dates_to_process = <<>>
    /\ submitted = 0
    /\ task = <<>>
    /\ successful_dates = 0
    /\ dirExists = TRUE
    /\ files = <<>>
    /\ requests = <<>>
    /\ filesAtStart = <<>>
    /\ finalCount = <<>>
    /\ outcomes = <<>>

\* data_cleaner.py:83-88 over an input directory holding some of `stems`, each
\* with one of `contents`
InitCleaner(stems, contents) ==
    /\ FetchIdle
    /\ cpc = "start"
    /\ \E present \in SUBSET stems : snapshots \in [present -> contents]
    /\ json_files = <<>>
    /\ all_holdings = <<>>
    /\ df = <<>>
    /\ historical = <<"absent">>
    /\ daily = <<>>
    /\ crashed = "none"

\* data_cleaner.py:90-95
ListFiles ==
    /\ cpc = "start"
    /\ json_files' = SortedStems(DOMAIN snapshots)
    /\ all_holdings' = <<>>
    /\ cpc' = "read"
    /\ UNCHANGED <<snapshots, df, historical, daily, crashed, fetchVars>>

\* data_cleaner.py:97-101, one iteration
ProcessFile ==
    /\ cpc = "read"
    /\ json_files # <<>>
    /\ all_holdings' = all_holdings
                         \o process_json_file(Head(json_files), snapshots[Head(json_files)])
    /\ json_files' = Tail(json_files)
    /\ UNCHANGED <<cpc, snapshots, df, historical, daily, crashed, fetchVars>>

\* data_cleaner.py:104-107: pd.DataFrame([]) has no columns, so
\* sort_values(['date', 'weight']) raises KeyError
FrameFails(holdings) == holdings = <<>>

\* data_cleaner.py:103-114
BuildFrame ==
    /\ cpc = "read"
    /\ json_files = <<>>
    /\ IF FrameFails(all_holdings)
       THEN /\ crashed' = "KeyError"
            /\ cpc' = "crashed"
            /\ df' = df
       ELSE /\ df' = RankedFrame(all_holdings)
            /\ cpc' = "save_single"
            /\ crashed' = crashed
    /\ UNCHANGED <<snapshots, json_files, all_holdings, historical, daily, fetchVars>>

\* data_cleaner.py:117 and 53-57, save_single_file
SaveSingle ==
    /\ cpc = "save_single"
    /\ historical' = df
    /\ cpc' = "save_daily"
    /\ UNCHANGED <<snapshots, json_files, all_holdings, df, daily, crashed, fetchVars>>

PendingDates ==
    LET u == Unique(df, <<>>) IN
    {i \in 1..Len(u) : RemoveDashes(u[i]) \notin DOMAIN daily}

\* data_cleaner.py:64-79, one iteration of save_daily_files for the next date
SaveDailyFile ==
    /\ cpc = "save_daily"
    /\ PendingDates # {}
    /\ LET u == Unique(df, <<>>)
           i == CHOOSE n \in PendingDates : \A m \in PendingDates : n <= m
           date_df == SelectRows(df, u[i])
           filename == RemoveDashes(u[i])
       IN \E p \in WeightOrders(date_df) :
             daily' = [f \in DOMAIN daily \cup {filename} |->
                          IF f = filename THEN DailyRows(date_df, p) ELSE daily[f]]
    /\ UNCHANGED <<cpc, snapshots, json_files, all_holdings, df, historical, crashed,
                   fetchVars>>

\* data_cleaner.py:81 and 120-124: the loop is over, the summary is logged
Summary ==
    /\ cpc = "save_daily"
    /\ PendingDates = {}
    /\ cpc' = "done"
    /\ UNCHANGED <<snapshots, json_files, all_holdings, df, historical, daily, crashed,
                   fetchVars>>

NextClean ==
    \/ ListFiles
    \/ ProcessFile
    \/ BuildFrame
    \/ SaveSingle
    \/ SaveDailyFile
    \/ Summary

\* the shapes a holding of a well-formed snapshot takes in SpecClean
RowShapes == {"equity5", "equity10", "bond"}

\* the shapes an aaData entry takes in SpecHold
EntryShapes == {"equity_raw", "equity_noraw", "equity_num", "equity_null",
                "bond_raw", "bond_null", "equity_short5", "bond_short5", "short3",
                "number", "null", "object", "string"}

\* the entry of shape sh at position i (ticker, name and sector carry i)
MakeEntry(sh, i) ==
    LET head(cls) == <<Str("T"), Num(i), Str("S"), Str(cls), Str("-")>> IN
    CASE sh = "equity5"       -> ListEntry(head("Equity") \o <<RawDict(5)>>)
      [] sh = "equity10"      -> ListEntry(head("Equity") \o <<RawDict(10)>>)
      [] sh = "bond"          -> ListEntry(head("Bond") \o <<RawDict(7)>>)
      [] sh = "equity_raw"    -> ListEntry(head("Equity") \o <<RawDict(7)>>)
      [] sh = "equity_noraw"  -> ListEntry(head("Equity") \o <<NoRawDict>>)
      [] sh = "equity_num"    -> ListEntry(head("Equity") \o <<Num(3)>>)
      [] sh = "equity_null"   -> ListEntry(head("Equity") \o <<Null>>)
      [] sh = "bond_raw"      -> ListEntry(head("Bond") \o <<RawDict(7)>>)
      [] sh = "bond_null"     -> ListEntry(head("Bond") \o <<Null>>)
      [] sh = "equity_short5" -> ListEntry(head("Equity"))
      [] sh = "bond_short5"   -> ListEntry(head("Bond"))
      [] sh = "short3"        -> ListEntry(<<Str("T"), Num(i), Str("S")>>)
      [] sh = "number"        -> ScalarEntry("num")
      [] sh = "null"          -> ScalarEntry("null")
      [] sh = "object"        -> ScalarEntry("dict")
      [] sh = "string"        -> [t |-> "str",
                                  items |-> <<Str("E"), Str("q"), Str("u"), Str("i"),
                                              Str("t"), Str("y")>>]

\* the sequences over S of length at most n
SeqsUpTo(S, n) == UNION {[1..m -> S] : m \in 0..n}

PayloadOf(shapes) == Payload([i \in 1..Len(shapes) |-> MakeEntry(shapes[i], i)])

CleanStems == {format_date(Ymd2Ord(2025, 4, 1)), format_date(Ymd2Ord(2025, 4, 2))}

CleanContents ==
    {BadJson, NotAnObject, NoField} \cup {PayloadOf(sh) : sh \in SeqsUpTo(RowShapes, MaxRows)}

InitClean == InitCleaner(CleanStems, CleanContents)

SpecClean == InitClean /\ [][NextClean]_vars

HoldContents == {PayloadOf(sh) : sh \in SeqsUpTo(EntryShapes, MaxEntries)}

InitHold == InitCleaner({format_date(Ymd2Ord(2025, 4, 1))}, HoldContents)

NextHold == ListFiles \/ ProcessFile

SpecHold == InitHold /\ [][NextHold]_vars

----------------------------------------------------------------------------
(* Properties of main.py *)

RunEnded(r) == run > r \/ (run = r /\ pc = "done")

InRange == {dates_to_process[i] : i \in 1..Len(dates_to_process)}

SaveFailed(r) == \E k \in Keys : outcomes[r][k] = "OSError"

\* C1 as stated: with the same upstream outcomes in both runs (and no failure
\* of the local write), the second run issues no request at all and reports
\* the success count of the first.
C1_SecondRunNoRequests ==
    \A r \in 2..Runs :
        (run >= r /\ ~SaveFailed(r - 1)) =>
            /\ \A k \in Keys : requests[r][k] = 0
            /\ RunEnded(r) => finalCount[r] = finalCount[r - 1]

\* C1 amended: a later run issues no request for a date whose output file exists
\* when it starts, issues exactly one request again for every date that was left
\* without a file (empty result, transport or decode error), never reports fewer
\* successes than the run before, and reports the same number unless a
\* save_to_file call of the run before failed.
C1_Idempotence ==
    \A r \in 2..Runs :
        /\ run >= r =>
              \A k \in Keys : filesAtStart[r][k] # "none" => requests[r][k] = 0
        /\ RunEnded(r) =>
              /\ \A k \in Keys :
                    (filesAtStart[r][k] = "none" /\ KnownIndex(INDEX_NAME))
                        => requests[r][k] = 1
              /\ finalCount[r] >= finalCount[r - 1]
              /\ ~SaveFailed(r - 1) => finalCount[r] = finalCount[r - 1]

\* a finished second run that skipped one date by its file and requested another
\* date again, with the same count as the first run
C1_Witness ==
    /\ run = 2 /\ pc = "done"
    /\ ~SaveFailed(1)
    /\ \E k \in Keys : filesAtStart[2][k] = "full" /\ requests[2][k] = 0
                          /\ requests[1][k] = 1
    /\ \E k \in Keys : upstream[k] = "empty" /\ requests[1][k] = 1
                          /\ requests[2][k] = 1
    /\ finalCount[2] = 1 /\ finalCount[1] = 1

\* C2: with an index identifier that is not in index_to_url, nothing is
\* submitted and no directory is created.
C2_FailFast ==
    ~KnownIndex(INDEX_NAME) => (submitted = 0 /\ ~dirExists)

\* when main() returns, every date's future has finished and been
\* aggregated, whether or not other futures raised, and the count is the number
\* of dates whose task returned success; while aggregating, the running count
\* is the number of successes seen so far; and main() does return.
C3_CountInvariant ==
    /\ pc \in {"collect", "done"} =>
          successful_dates =
              Cardinality({k \in InRange : task[k].seen /\ task[k].st = "returned"
                                              /\ task[k].success})
    /\ pc = "done" =>
          /\ \A k \in InRange : task[k].seen /\ task[k].st \in {"returned", "raised"}
          /\ finalCount[run] =
                Cardinality({k \in InRange : outcomes[run][k] = "success"})
          /\ \A k \in InRange :
                outcomes[run][k] = "success" <=> (task[k].st = "returned" /\ task[k].success)

\* a future that has not finished can take its next step, a finished one can be
\* aggregated, whatever happened to the other futures
TaskCanProceed(k) ==
    CASE task[k].st = "queued" /\ WorkerFree(k) -> ENABLED TaskStart(k)
      [] task[k].st = "started" -> ENABLED TaskFetch(k)
      [] task[k].st = "saving" -> ENABLED TaskSave(k)
      [] task[k].st = "sleeping" -> ENABLED TaskFinish(k)
      [] task[k].st \in {"returned", "raised"} /\ ~task[k].seen /\ pc = "collect" ->
            ENABLED Collect(k)
      [] OTHER -> TRUE

\* C3: an exception of one date's task is caught in the main thread and leaves
\* the other dates' tasks to finish and be aggregated: no task is ever blocked,
\* main() returns once every future is aggregated, and the count is the number of
\* dates whose task returned success, in every order of completion.
C3_Isolation ==
    /\ C3_CountInvariant
    /\ \A k \in InRange : TaskCanProceed(k)
    /\ (pc = "collect" /\ \A k \in InRange : task[k].seen) => ENABLED MainReturn

\* one future raised, another returned success and was counted
C3_Witness ==
    /\ pc = "done"
    /\ \E k \in InRange : task[k].st = "raised" /\ task[k].exc = "OSError"
    /\ \E k \in InRange : task[k].st = "returned" /\ task[k].success
    /\ finalCount[run] = 1

\* C4: a task that finds its output file existing returns success in that
\* step, issues no request and leaves the file as it is.
C4_ShortCircuit ==
    [][\A k \in Keys :
          (task[k].st = "queued" /\ files[k] # "none" /\ task'[k].st # "queued")
              => /\ task'[k].st = "returned"
                 /\ task'[k].success
                 /\ files' = files
                 /\ requests' = requests]_vars

\* a second run in which a date was skipped by its file and counted
C4_Witness ==
    /\ run = 2
    /\ \E k \in InRange :
          /\ filesAtStart[2][k] # "none"
          /\ task[k].st = "returned" /\ task[k].success /\ task[k].seen
          /\ requests[2][k] = 0
          /\ files[k] = filesAtStart[2][k]
          /\ successful_dates >= 1

\* C5: a date whose request ended in a transport error, a decode error or an
\* empty holdings list got no data, has no output file and is reported as a
\* non-success, and no date is requested more than once in a run.
C5_FailedIsTerminal ==
    /\ \A r \in 1..Runs : \A k \in Keys : requests[r][k] <= 1
    /\ \A k \in Keys :
          (requests[run][k] = 1 /\ upstream[k] # "data") =>
              /\ ~task[k].success
              /\ task[k].st \in {"sleeping", "returned"}
              /\ files[k] = "none"
              /\ task[k].seen => outcomes[run][k] = "failure"
    /\ \A r \in 1..Runs : \A k \in Keys :
          (RunEnded(r) /\ requests[r][k] = 1 /\ upstream[k] # "data") =>
              outcomes[r][k] = "failure" /\ files[k] = "none"

\* a finished run with one date of each failed kind, each requested once
C5_Witness ==
    /\ pc = "done"
    /\ \E k \in InRange : upstream[k] = "empty" /\ requests[run][k] = 1
                             /\ outcomes[run][k] = "failure"
    /\ \E k \in InRange : upstream[k] \in {"transport_error", "decode_error"}
                             /\ requests[run][k] = 1 /\ outcomes[run][k] = "failure"
    /\ \A k \in Keys : files[k] = "none"
    /\ finalCount[run] = 0

Max(a, b) == IF a >= b THEN a ELSE b

\* the loop never runs past end + 1; when it has stopped, dates_to_process holds the keys of
\* start..end, one per day, 8 digits each, strictly increasing, so
\* end - start + 1 keys when start <= end and none otherwise.
C6_RangeInvariant ==
    /\ current_date <= Max(start_date, end_date + 1)
    /\ Len(dates_to_process) = current_date - start_date
    /\ pc # "gen" =>
          /\ Len(dates_to_process) = (IF start_date <= end_date
                                      THEN end_date - start_date + 1 ELSE 0)
          /\ \A i \in 1..Len(dates_to_process) :
                /\ dates_to_process[i] = format_date(start_date + i - 1)
                /\ Len(dates_to_process[i]) = 8
                /\ \A j \in 1..8 : dates_to_process[i][j] \in 0..9
          /\ \A i \in 1..(Len(dates_to_process) - 1) :
                StrLess(dates_to_process[i], dates_to_process[i + 1])

\* C6: the date-range loop terminates and yields exactly the keys of the days
\* start..end, strictly increasing (none when start > end): the range invariant
\* above holds throughout and the loop is left.
C6_DateRange == [](C6_RangeInvariant) /\ <>(pc # "gen")

\* a finished range of several days that crosses a month end
C6_Witness ==
    /\ pc = "submit"
    /\ start_date < end_date
    /\ Len(dates_to_process) = end_date - start_date + 1
    /\ SubSeq(dates_to_process[1], 5, 6) # SubSeq(dates_to_process[Len(dates_to_process)], 5, 6)

----------------------------------------------------------------------------
(* Properties of data_cleaner.py *)

\* the input directory has been read completely
AllRead == cpc = "read" /\ json_files = <<>>

IsArray(e) == e.t = "list"

Subscriptable(e) == e.t \in {"list", "str"}

\* entry e is an array whose asset-class position holds "Equity"
IsEquity(e) == IsArray(e) /\ Len(e.items) >= 4 /\ e.items[4] = Str("Equity")

HasWeightPosition(e) == Len(e.items) >= 6

\* the weight the claims give an entry: 'raw' of a mapping that has it, else 0
ClaimedWeight(e) ==
    IF HasWeightPosition(e) /\ e.items[6].t = "dict" /\ e.items[6].hasraw
    THEN Num(e.items[6].n) ELSE Num(0)

ClaimedRecord(e, date) ==
    [date |-> date, ticker |-> e.items[1], name |-> e.items[2],
     sector |-> e.items[3], weight |-> ClaimedWeight(e)]

KeepWithWeight(e) == IsEquity(e) /\ HasWeightPosition(e)

\* the records of the entries of rows at the positions in kept, in input order
RECURSIVE RecordsOf(_, _, _, _)
RecordsOf(rows, date, kept, i) ==
    IF i > Len(rows) THEN <<>>
    ELSE IF i \in kept
    THEN <<ClaimedRecord(rows[i], date)>> \o RecordsOf(rows, date, kept, i + 1)
    ELSE RecordsOf(rows, date, kept, i + 1)

\* C7: in the combined output every holding has rank 1 + the number of holdings
\* of its date with a strictly greater weight (equal weights share a rank, dates
\* are ranked apart); the per-date file of each date lists that date's holdings
\* by descending weight with ranks 1..count by position.
C7_Ranking ==
    cpc = "done" =>
        /\ \A i \in 1..Len(historical) :
              /\ historical[i].rank =
                    1 + Cardinality({j \in 1..Len(historical) :
                            /\ historical[j].date = historical[i].date
                            /\ historical[j].weight.n > historical[i].weight.n})
              /\ \A j \in 1..Len(historical) :
                    (historical[j].date = historical[i].date
                        /\ historical[j].weight = historical[i].weight)
                            => historical[j].rank = historical[i].rank
        /\ DOMAIN daily = {RemoveDashes(historical[i].date) : i \in 1..Len(historical)}
        /\ \A f \in DOMAIN daily :
              LET rows == daily[f]
                  of == {i \in 1..Len(historical) : RemoveDashes(historical[i].date) = f}
              IN /\ Len(rows) = Cardinality(of)
                 /\ \A i \in 1..Len(rows) : rows[i].rank = i
                 /\ \A i \in 1..(Len(rows) - 1) : rows[i].weight.n >= rows[i + 1].weight.n
                 /\ \E q \in [1..Len(rows) -> of] :
                       /\ \A a, b \in 1..Len(rows) : a # b => q[a] # q[b]
                       /\ \A a \in 1..Len(rows) :
                             /\ rows[a].ticker = historical[q[a]].ticker
                             /\ rows[a].name = historical[q[a]].name
                             /\ rows[a].sector = historical[q[a]].sector
                             /\ rows[a].weight = historical[q[a]].weight

\* weights [10, 10, 5] on one date: ranks [1, 1, 3] combined, [1, 2, 3] per date
C7_Witness ==
    /\ cpc = "done"
    /\ \E f \in DOMAIN daily :
          /\ [i \in 1..Len(daily[f]) |-> daily[f][i].weight.n] = <<10, 10, 5>>
          /\ [i \in 1..Len(daily[f]) |-> daily[f][i].rank] = <<1, 2, 3>>
          /\ \E lo \in 1..Len(historical) :
                /\ lo + 2 <= Len(historical)
                /\ \A i \in 0..2 : RemoveDashes(historical[lo + i].date) = f
                /\ <<historical[lo].rank, historical[lo + 1].rank,
                     historical[lo + 2].rank>> = <<1, 1, 3>>

\* C8 as stated, for snapshots whose entries are all arrays: one record per
\* entry whose asset-class position is "Equity", in input order, the weight 0
\* when the weight position is absent.
C8_WeightAbsentIsZero ==
    AllRead =>
        \A stem \in DOMAIN snapshots :
            (\A i \in 1..Len(snapshots[stem].aaData) : IsArray(snapshots[stem].aaData[i]))
                => all_holdings =
                       RecordsOf(snapshots[stem].aaData, FormatStem(stem),
                                 {i \in 1..Len(snapshots[stem].aaData) :
                                     IsEquity(snapshots[stem].aaData[i])}, 1)

\* C8 amended: for a holdings list whose entries can all be subscripted, one
\* record per array entry that has the weight position and whose asset-class
\* position is "Equity", in input order, with ticker, name and sector unchanged
\* and the weight 'raw' of the container, or 0 when the container is no mapping
\* or has no 'raw'; an "Equity" entry without the weight position is dropped;
\* a list with an entry that cannot be subscripted yields no record; the result
\* is always a list.
C8_Transform ==
    AllRead =>
        \A stem \in DOMAIN snapshots :
            LET rows == snapshots[stem].aaData IN
            IF \A i \in 1..Len(rows) : Subscriptable(rows[i])
            THEN all_holdings =
                    RecordsOf(rows, FormatStem(stem),
                              {i \in 1..Len(rows) : KeepWithWeight(rows[i])}, 1)
            ELSE all_holdings = <<>>

\* a snapshot with a bond, an equity whose weight is a plain number and an
\* equity without the weight position: one record, of weight 0
C8_Witness ==
    /\ AllRead
    /\ \E stem \in DOMAIN snapshots :
          LET rows == snapshots[stem].aaData IN
          /\ \E i \in 1..Len(rows) : IsArray(rows[i]) /\ ~IsEquity(rows[i])
                                        /\ HasWeightPosition(rows[i])
          /\ \E i \in 1..Len(rows) : IsEquity(rows[i]) /\ ~HasWeightPosition(rows[i])
          /\ \E i \in 1..Len(rows) : IsEquity(rows[i]) /\ HasWeightPosition(rows[i])
                                        /\ rows[i].items[6].t = "num"
                                        /\ rows[i].items[6].n # 0
    /\ Len(all_holdings) = 1
    /\ all_holdings[1].weight = Num(0)

\* C9: every valid "Equity" holding of a snapshot is among the records returned
\* for it, whatever the other entries of the snapshot are.
C9_Containment ==
    AllRead =>
        \A stem \in DOMAIN snapshots :
            \A i \in 1..Len(snapshots[stem].aaData) :
                KeepWithWeight(snapshots[stem].aaData[i]) =>
                    \E j \in 1..Len(all_holdings) :
                        all_holdings[j] =
                            ClaimedRecord(snapshots[stem].aaData[i], FormatStem(stem))

\* C10: over a directory that holds snapshot files, the cleaning run never ends
\* in an exception, whatever the files contribute (also when each contributes
\* zero records).
C10_NoHardFailure ==
    DOMAIN snapshots # {} => (crashed = "none" /\ cpc # "crashed")

====
